---- MODULE Spec2Model ----
(***************************************************************************)
(* Save loading of the Digimon card app.                                   *)
(*                                                                         *)
(* AppComponent (src/src/app/app.component.ts) decides at construction     *)
(* which save goes into the Save Store: the remote save of a logged-in     *)
(* user, the save cached in localStorage, or none (the user is asked).     *)
(* Its handlers retry, loadBackup, createANewSave and loginWithGoogle, the *)
(* callback of the remote fetch and the callback of the file reader are    *)
(* the actions of Spec.                                                    *)
(*                                                                         *)
(* FullCardComponent (src/unnamed/part_000) changes the owned count of a   *)
(* card; its three handlers are the actions of SpecCard.                   *)
(*                                                                         *)
(* The database service, the save reducer and emptySave are imported by    *)
(* the component and are not among the sources; they are modelled from the *)
(* specification (checkSaveValidity, saveReducer, emptySave).              *)
(***************************************************************************)
EXTENDS Integers, Sequences, FiniteSets, TLC

(***************************************************************************)
(* Bounds of the model.                                                    *)
(***************************************************************************)
\* remote fetches that may be outstanding at once
MaxFetches == 2
\* file reads that may be outstanding at once
MaxReads == 1
\* largest card count the card component is driven to
MaxCount == 6

(***************************************************************************)
(* Saves.                                                                  *)
(***************************************************************************)
\* emptySave.version, the current version of the save schema
CurrentVersion == 2

\* a version below the current one
OldVersion == CurrentVersion - 1

\* the value of a field the raw save does not have
Missing == "missing"

\* emptySave of store/reducers/save.reducer
emptySave ==
  [version |-> CurrentVersion, collection |-> "empty", decks |-> "empty",
   settings |-> "default", uid |-> ""]

\* placeholder in the save slot of a value that carries no save
noSave ==
  [version |-> 0, collection |-> Missing, decks |-> Missing,
   settings |-> Missing, uid |-> ""]

\* the raw saves the environment supplies: an outdated one, a current one,
\* and an outdated one with fields missing
RawSaves ==
  { [version |-> OldVersion, collection |-> "colA", decks |-> "deckA",
     settings |-> "setA", uid |-> ""],
    [version |-> CurrentVersion, collection |-> "colB", decks |-> "deckB",
     settings |-> "setB", uid |-> ""],
    [version |-> OldVersion, collection |-> Missing, decks |-> "deckA",
     settings |-> Missing, uid |-> ""] }

\* the fields of a save besides its version and its user
DataFields == {"collection", "decks", "settings"}

\* authService.userData: null without a session
NoUser == [present |-> FALSE, uid |-> ""]

\* authService.userData of the logged-in user
TheUser == [present |-> TRUE, uid |-> "u1"]

\* authService.userData as the component reads it
userData(loggedIn) == IF loggedIn THEN TheUser ELSE NoUser

\* databaseService.checkSaveValidity(save, user): the raw save normalised to
\* the current schema, missing fields filled, the user's identity merged in
checkSaveValidity(save, user) ==
  [version    |-> emptySave.version,
   collection |-> IF save.collection = Missing THEN emptySave.collection
                  ELSE save.collection,
   decks      |-> IF save.decks = Missing THEN emptySave.decks ELSE save.decks,
   settings   |-> IF save.settings = Missing THEN emptySave.settings
                  ELSE save.settings,
   uid        |-> IF user.present THEN user.uid ELSE save.uid]

(***************************************************************************)
(* Texts: the content of a file or of the localStorage entry.              *)
(***************************************************************************)
\* the texts a user can import: one that is no JSON, and the JSON of a save
FileContents ==
  {[kind |-> "malformed", save |-> noSave]}
    \cup {[kind |-> "json", save |-> s] : s \in RawSaves}

\* localStorage.getItem('Digimon-Card-Collector'): nothing, or a text
LocalBlobs == {[kind |-> "absent", save |-> noSave]} \cup FileContents

\* what a remote fetch delivers: null or a save
RemoteResults ==
  {[kind |-> "null", save |-> noSave]}
    \cup {[kind |-> "save", save |-> s] : s \in RawSaves}

\* whether JSON.parse(text) throws a SyntaxError
JSONparseThrows(text) == text.kind = "malformed"

\* JSON.parse(text) of a text that parses
JSONparse(text) == text.save

(***************************************************************************)
(* The Save Store.                                                         *)
(***************************************************************************)
\* the action creators loadSave and setSave of store/digimon.actions
LoadSaveAction(save) == [type |-> "loadSave", save |-> save]

SetSaveAction(save) == [type |-> "setSave", save |-> save]

\* the save reducer: both actions put their save into the store
saveReducer(state, action) ==
  IF action.type \in {"loadSave", "setSave"} THEN action.save ELSE state

VARIABLES
  pc,               \* "new" before the constructor ran, "ready" after it,
                    \* "crashed" when it threw
  isLoggedIn,       \* authService.isLoggedIn
  localStorage,     \* the entry 'Digimon-Card-Collector' of localStorage
  localStorageSave, \* AppComponent.localStorageSave
  spinner,          \* AppComponent.spinner
  hide,             \* AppComponent.hide
  noSaveDialog,     \* AppComponent.noSaveDialog
  retryDialog,      \* AppComponent.retryDialog
  showChangelog,    \* AppComponent.showChangelog
  store,            \* the save in the Save Store
  dispatched,       \* the actions the last handler dispatched, in order
  storeTrace,       \* the save in the store after each of them
  messages,         \* the severities the last handler gave messageService
  fetches,          \* the number of remote fetches not yet resolved
  reads,            \* the contents of the files whose read is not finished
  lastOp,           \* the handler that ran last
  storeSource,      \* the handler whose dispatch the store's save is from
  count,            \* FullCardComponent.count
  cardDispatched,   \* the actions the card's last handler dispatched
  cardOp            \* the card handler that ran last

appVars ==
  <<pc, isLoggedIn, localStorage, localStorageSave, spinner, hide,
    noSaveDialog, retryDialog, showChangelog, store, dispatched, storeTrace,
    messages, fetches, reads, lastOp, storeSource>>

cardVars == <<count, cardDispatched, cardOp>>

vars == <<appVars, cardVars>>

(***************************************************************************)
(* The methods of AppComponent, as functions of the state `s` a handler    *)
(* starts in to the state it ends in.  s.thrown tells that the handler     *)
(* ended by an uncaught exception.                                         *)
(***************************************************************************)
\* the state a handler starts in: nothing dispatched or notified yet
Begin ==
  [localStorageSave |-> localStorageSave, spinner |-> spinner, hide |-> hide,
   noSaveDialog |-> noSaveDialog, retryDialog |-> retryDialog,
   showChangelog |-> showChangelog, store |-> store, dispatched |-> <<>>,
   storeTrace |-> <<>>, messages |-> <<>>, fetches |-> fetches,
   storeSource |-> storeSource, thrown |-> FALSE]

\* this.store.dispatch(action), made by the handler `via`
dispatch(s, action, via) ==
  LET next == saveReducer(s.store, action) IN
    [s EXCEPT !.store = next,
              !.dispatched = Append(@, action),
              !.storeTrace = Append(@, next),
              !.storeSource = via]

\* this.messageService.add({severity, ...})
addMessage(s, severity) == [s EXCEPT !.messages = Append(@, severity)]

\* checkForSave: JSON.parse of the cached text is not guarded.
\* authService.checkLocalStorage() restores the session; its outcome is
\* isLoggedIn, which is any value from Init on.
checkForSave(s) ==
  IF localStorage.kind = "absent"
  THEN [s EXCEPT !.localStorageSave = [kind |-> "null", save |-> noSave]]
  ELSE IF JSONparseThrows(localStorage)
       THEN [s EXCEPT !.thrown = TRUE]
       ELSE [s EXCEPT !.localStorageSave =
                        [kind |-> "save", save |-> JSONparse(localStorage)]]

\* startLoginOfflineDialog
startLoginOfflineDialog(s) ==
  IF s.localStorageSave.kind = "save"
  THEN LET valid == checkSaveValidity(s.localStorageSave.save,
                                      userData(isLoggedIn))
           s1 == [s EXCEPT !.localStorageSave =
                             [kind |-> "save", save |-> valid]]
           s2 == dispatch(s1, LoadSaveAction(valid), "local")
       IN [s2 EXCEPT !.spinner = FALSE, !.hide = FALSE]
  ELSE [s EXCEPT !.spinner = FALSE, !.noSaveDialog = TRUE]

\* loadSave: the subscription is one more outstanding fetch
loadSave(s) ==
  LET s1 == checkForSave(s) IN
    IF s1.thrown THEN s1
    ELSE IF ~isLoggedIn THEN startLoginOfflineDialog(s1)
    ELSE [s1 EXCEPT !.fetches = @ + 1]

\* startRetryDialog with the dialog flag forgotten
startRetryDialogSpinnerOnly(s) == [s EXCEPT !.spinner = FALSE]

\* startRetryDialog
startRetryDialog(s) == [s EXCEPT !.spinner = FALSE, !.retryDialog = TRUE]

\* the callback given to subscribe in loadSave
subscribeNext(s, saveOrNull) ==
  IF saveOrNull.kind = "null" THEN startRetryDialog(s)
  ELSE LET save == saveOrNull.save
           s1 == [s EXCEPT !.spinner = FALSE, !.hide = FALSE]
           s2 == dispatch(s1, LoadSaveAction(save), "remote")
           s3 == [s2 EXCEPT !.showChangelog =
                              (save.version # emptySave.version)]
       IN dispatch(s3,
                   SetSaveAction([save EXCEPT !.version = emptySave.version]),
                   "remote")

\* retry
retry(s) == loadSave([s EXCEPT !.spinner = TRUE, !.retryDialog = FALSE])

\* onload with the three flags cleared before the try block
onloadFlagsBeforeTry(s, text) ==
  LET s0 == [s EXCEPT !.retryDialog = FALSE, !.spinner = FALSE,
                      !.hide = FALSE] IN
    IF JSONparseThrows(text) THEN addMessage(s0, "warn")
    ELSE LET save == checkSaveValidity(JSONparse(text), NoUser)
         IN addMessage(dispatch(s0, LoadSaveAction(save), "backup"),
                       "success")

\* onload with the parsed save dispatched as it is
onloadNoValidity(s, text) ==
  IF JSONparseThrows(text) THEN addMessage(s, "warn")
  ELSE LET save == JSONparse(text)
           s1 == dispatch(s, LoadSaveAction(save), "backup")
           s2 == addMessage(s1, "success")
       IN [s2 EXCEPT !.retryDialog = FALSE, !.spinner = FALSE,
                     !.hide = FALSE]

\* fileReader.onload of loadBackup
onload(s, text) ==
  IF JSONparseThrows(text) THEN addMessage(s, "warn")
  ELSE LET save == checkSaveValidity(JSONparse(text), NoUser)
           s1 == dispatch(s, LoadSaveAction(save), "backup")
           s2 == addMessage(s1, "success")
       IN [s2 EXCEPT !.retryDialog = FALSE, !.spinner = FALSE,
                     !.hide = FALSE]

\* the callback of GoogleAuth().then in loginWithGoogle
loginWithGoogleThen(s) ==
  [s EXCEPT !.hide = FALSE, !.noSaveDialog = FALSE, !.retryDialog = FALSE]

\* createANewSave with the dispatch forgotten
createANewSaveNoDispatch(s) ==
  [s EXCEPT !.hide = FALSE, !.noSaveDialog = FALSE, !.retryDialog = FALSE]

\* createANewSave
createANewSave(s) ==
  dispatch([s EXCEPT !.hide = FALSE, !.noSaveDialog = FALSE,
                     !.retryDialog = FALSE],
           SetSaveAction(emptySave), "new")

(***************************************************************************)
(* The actions of AppComponent.                                            *)
(***************************************************************************)
\* the state `s` a handler ended in becomes the state of the program
Commit(s) ==
  /\ localStorageSave' = s.localStorageSave
  /\ spinner' = s.spinner
  /\ hide' = s.hide
  /\ noSaveDialog' = s.noSaveDialog
  /\ retryDialog' = s.retryDialog
  /\ showChangelog' = s.showChangelog
  /\ store' = s.store
  /\ dispatched' = s.dispatched
  /\ storeTrace' = s.storeTrace
  /\ messages' = s.messages
  /\ fetches' = s.fetches
  /\ storeSource' = s.storeSource

\* a sequence without its i-th element
RemoveAt(seq, i) == SubSeq(seq, 1, i - 1) \o SubSeq(seq, i + 1, Len(seq))

\* the field initialisers of AppComponent, before the constructor body
FieldInitialisers ==
  /\ pc = "new"
  /\ localStorageSave = [kind |-> "undefined", save |-> noSave]
  /\ spinner = TRUE
  /\ hide = TRUE
  /\ noSaveDialog = FALSE
  /\ retryDialog = FALSE
  /\ showChangelog = FALSE
  /\ store = emptySave
  /\ dispatched = <<>>
  /\ storeTrace = <<>>
  /\ messages = <<>>
  /\ fetches = 0
  /\ reads = <<>>
  /\ lastOp = "none"
  /\ storeSource = "initial"

\* a new AppComponent in any environment; the card component is left alone
Init ==
  /\ FieldInitialisers
  /\ isLoggedIn \in BOOLEAN
  /\ localStorage \in LocalBlobs
  /\ count = 0
  /\ cardDispatched = <<>>
  /\ cardOp = "none"

\* the constructor: an exception of loadSave leaves no component
Construct ==
  /\ pc = "new"
  /\ LET s == loadSave(Begin) IN
       /\ Commit(s)
       /\ pc' = IF s.thrown THEN "crashed" ELSE "ready"
  /\ lastOp' = "construct"
  /\ UNCHANGED <<isLoggedIn, localStorage, reads, cardVars>>

\* the user presses retry
Retry ==
  /\ pc = "ready"
  /\ isLoggedIn => fetches < MaxFetches
  /\ Commit(retry(Begin))
  /\ lastOp' = "retry"
  /\ UNCHANGED <<pc, isLoggedIn, localStorage, reads, cardVars>>

\* an outstanding remote fetch delivers its one result
FetchResolve ==
  /\ pc = "ready"
  /\ fetches > 0
  /\ \E saveOrNull \in RemoteResults :
       /\ Commit(subscribeNext([Begin EXCEPT !.fetches = @ - 1], saveOrNull))
       /\ lastOp' = IF saveOrNull.kind = "null" THEN "fetchNull"
                    ELSE "fetchSave"
  /\ UNCHANGED <<pc, isLoggedIn, localStorage, reads, cardVars>>

\* loadBackup: the read of the chosen file is started
LoadBackup ==
  /\ pc = "ready"
  /\ Len(reads) < MaxReads
  /\ \E text \in FileContents : reads' = Append(reads, text)
  /\ Commit(Begin)
  /\ lastOp' = "loadBackup"
  /\ UNCHANGED <<pc, isLoggedIn, localStorage, cardVars>>

\* a file read finishes and fileReader.onload runs
FileOnload ==
  /\ pc = "ready"
  /\ \E i \in 1..Len(reads) :
       /\ Commit(onload(Begin, reads[i]))
       /\ reads' = RemoveAt(reads, i)
       /\ lastOp' = IF reads[i].kind = "malformed" THEN "onloadMalformed"
                    ELSE "onloadJson"
  /\ UNCHANGED <<pc, isLoggedIn, localStorage, cardVars>>

\* the user creates a new save
CreateANewSave ==
  /\ pc = "ready"
  /\ Commit(createANewSave(Begin))
  /\ lastOp' = "createANewSave"
  /\ UNCHANGED <<pc, isLoggedIn, localStorage, reads, cardVars>>

\* the user logs in with Google and the login succeeds
LoginWithGoogle ==
  /\ pc = "ready"
  /\ ~isLoggedIn
  /\ isLoggedIn' = TRUE
  /\ Commit(loginWithGoogleThen(Begin))
  /\ lastOp' = "loginWithGoogle"
  /\ UNCHANGED <<pc, localStorage, reads, cardVars>>

Next ==
  \/ Construct
  \/ Retry
  \/ FetchResolve
  \/ LoadBackup
  \/ FileOnload
  \/ CreateANewSave
  \/ LoginWithGoogle

Spec == Init /\ [][Next]_vars

\* a started remote fetch eventually delivers a result
FairSpec == Spec /\ WF_vars(FetchResolve)

(***************************************************************************)
(* FullCardComponent: the owned count of a card.  `c` is the component:    *)
(* its count and the actions its handler has dispatched.                   *)
(***************************************************************************)
\* the cards the handlers are called for
CardIds == {"BT1-001", "BT1-002"}

\* event.target.value of the numeric input, as the number `<=` reads it
\* (the empty text reads as 0)
InputValues == -2..MaxCount

\* the action creator changeCardCount of store/digimon.actions
ChangeCardCountAction(id, n) == [type |-> "changeCardCount", id |-> id, count |-> n]

\* the card component when a handler starts
BeginCard == [count |-> count, dispatched |-> <<>>]

\* this.store.dispatch(action) of the card component
dispatchCard(c, action) == [c EXCEPT !.dispatched = Append(@, action)]

\* changeCardCount(event, id)
changeCardCount(c, value, id) ==
  IF value <= 0 THEN c
  ELSE dispatchCard(c, ChangeCardCountAction(id, value))

\* increaseCardCount(id)
increaseCardCount(c, id) ==
  LET n == c.count + 1 IN
    dispatchCard([c EXCEPT !.count = n], ChangeCardCountAction(id, n))

\* decreaseCardCount with the guard on the count forgotten
decreaseCardCountNoGuard(c, id) ==
  LET n == c.count - 1 IN
    dispatchCard([c EXCEPT !.count = n], ChangeCardCountAction(id, n))

\* decreaseCardCount(id)
decreaseCardCount(c, id) ==
  IF c.count <= 0 THEN c
  ELSE LET n == c.count - 1 IN
         dispatchCard([c EXCEPT !.count = n], ChangeCardCountAction(id, n))

\* the card component a handler ended in becomes the state
CommitCard(c) ==
  /\ count' = c.count
  /\ cardDispatched' = c.dispatched

\* a card component bound to a count of 0 or more
InitCard ==
  /\ FieldInitialisers
  /\ isLoggedIn = FALSE
  /\ localStorage = [kind |-> "absent", save |-> noSave]
  /\ count \in 0..MaxCount
  /\ cardDispatched = <<>>
  /\ cardOp = "none"

\* the user types a count
ChangeCardCount ==
  /\ \E value \in InputValues, id \in CardIds :
       CommitCard(changeCardCount(BeginCard, value, id))
  /\ cardOp' = "changeCardCount"
  /\ UNCHANGED appVars

\* the user presses plus
IncreaseCardCount ==
  /\ count < MaxCount
  /\ \E id \in CardIds : CommitCard(increaseCardCount(BeginCard, id))
  /\ cardOp' = "increaseCardCount"
  /\ UNCHANGED appVars

\* the user presses minus
DecreaseCardCount ==
  /\ \E id \in CardIds : CommitCard(decreaseCardCount(BeginCard, id))
  /\ cardOp' = "decreaseCardCount"
  /\ UNCHANGED appVars

NextCard ==
  \/ ChangeCardCount
  \/ IncreaseCardCount
  \/ DecreaseCardCount

SpecCard == InitCard /\ [][NextCard]_vars

(***************************************************************************)
(* Properties.                                                             *)
(***************************************************************************)
\* C1: the Save Store never holds a save below the current version, not
\* even between the dispatches of one handler.
C1_StoreNeverBelowCurrent ==
  /\ store.version = CurrentVersion
  /\ \A i \in 1..Len(storeTrace) : storeTrace[i].version = CurrentVersion

\* C2: the constructor takes the save from the first source there is: the
\* remote save of a logged-in user (fetched, and the fetched save is what
\* is dispatched), else the cached save after validation with no fetch
\* started, else nothing is dispatched and the no-save dialog is opened.
C2_SourcePriority ==
  /\ lastOp = "construct" =>
       /\ isLoggedIn => (fetches = 1 /\ dispatched = <<>>)
       /\ (~isLoggedIn /\ localStorage.kind = "json") =>
            /\ fetches = 0
            /\ dispatched =
                 <<LoadSaveAction(
                     checkSaveValidity(JSONparse(localStorage), NoUser))>>
            /\ store = dispatched[1].save
       /\ (~isLoggedIn /\ localStorage.kind # "json") =>
            (fetches = 0 /\ dispatched = <<>> /\ noSaveDialog)
  /\ lastOp = "fetchSave" =>
       /\ Len(dispatched) = 2
       /\ dispatched[1].type = "loadSave"
       /\ dispatched[1].save \in RawSaves
       /\ dispatched[2] =
            SetSaveAction([dispatched[1].save EXCEPT
                             !.version = CurrentVersion])
       /\ store = dispatched[2].save

\* C3: the onload of a file that is no JSON dispatches nothing, leaves the
\* store, retryDialog, spinner and hide as they were, and issues a warning.
C3_UnparseableImportLeavesStore ==
  [][lastOp' = "onloadMalformed" =>
       /\ dispatched' = <<>>
       /\ store' = store
       /\ messages' = <<"warn">>
       /\ retryDialog' = retryDialog
       /\ spinner' = spinner
       /\ hide' = hide]_vars

\* C3 happens: a file that is no JSON was imported while the spinner ran.
C3_Witness == lastOp = "onloadMalformed" /\ spinner /\ messages = <<"warn">>

\* C4: a remote fetch that delivers null opens the retry dialog, clears the
\* spinner and dispatches nothing; the retry that follows closes the dialog
\* and starts a new fetch.
C4_NullFetchOpensRetry ==
  [][/\ lastOp' = "fetchNull" =>
          /\ retryDialog'
          /\ ~spinner'
          /\ dispatched' = <<>>
          /\ store' = store
     /\ (lastOp = "fetchNull" /\ lastOp' = "retry") =>
          /\ ~retryDialog'
          /\ spinner'
          /\ fetches' = fetches + 1]_vars

\* C4 happens: a fetch delivered null and the retry dialog is open.
C4_Witness == lastOp = "fetchNull" /\ retryDialog /\ ~spinner

\* C5: the onload of a file holding a save of an older version dispatches
\* that save with the current version and its other fields preserved.
C5_OutdatedImportMigrated ==
  [][lastOp' = "onloadJson" =>
       \E i \in 1..Len(reads) :
         /\ reads' = RemoveAt(reads, i)
         /\ reads[i].save.version < CurrentVersion =>
              /\ Len(dispatched') = 1
              /\ dispatched'[1].type = "loadSave"
              /\ dispatched'[1].save.version = CurrentVersion
              /\ store' = dispatched'[1].save
              /\ \A f \in DataFields :
                   reads[i].save[f] # Missing =>
                     dispatched'[1].save[f] = reads[i].save[f]]_vars

\* C5 happens: the outdated save was imported and is in the store.
C5_Witness ==
  /\ lastOp = "onloadJson"
  /\ storeSource = "backup"
  /\ store.collection = "colA"
  /\ store.version = CurrentVersion

\* C6: without a session and without a cached save the constructor opens
\* the no-save dialog and dispatches nothing; createANewSave dispatches the
\* empty save, closes both dialogs and unhides the UI.
C6_CreateNewSavePath ==
  /\ (lastOp = "construct" /\ ~isLoggedIn /\ localStorage.kind = "absent") =>
       (pc = "ready" /\ noSaveDialog /\ dispatched = <<>> /\ ~spinner)
  /\ lastOp = "createANewSave" =>
       /\ dispatched = <<SetSaveAction(emptySave)>>
       /\ store = emptySave
       /\ ~noSaveDialog
       /\ ~retryDialog
       /\ ~hide

\* C6 happens: a user without session and cached save created a new save.
C6_Witness ==
  /\ lastOp = "createANewSave"
  /\ ~isLoggedIn
  /\ localStorage.kind = "absent"
  /\ store = emptySave

\* C7: text that is no JSON, imported or cached, never crashes the load
\* sequence and is reported.
C7_MalformedNeverCrashes ==
  /\ pc # "crashed"
  /\ lastOp = "onloadMalformed" => messages = <<"warn">>

\* C8: whenever loadSave was started, by the constructor or by retry, the
\* spinner is eventually cleared.
C8_SpinnerEventuallyCleared ==
  (lastOp \in {"construct", "retry"}) ~> (spinner = FALSE)

\* C9: once an imported save is in the store with the retry dialog closed
\* and the UI shown, the result of an outstanding fetch neither reopens
\* the retry dialog nor replaces the save.
C9_StaleFetchHarmless ==
  [][(/\ storeSource = "backup"
      /\ ~retryDialog
      /\ ~hide
      /\ lastOp' \in {"fetchNull", "fetchSave"}) =>
       (~retryDialog' /\ store' = store)]_vars

====
